---- MODULE Spec2Model ----
(***************************************************************************)
(* A model of brainsmash/neuro/io.py: the dense-mapping exporter           *)
(* export_cifti_mapping, which shells out to wb_command three times and    *)
(* parses three scratch files of the shared temporary directory, and the   *)
(* loader load_data, which probes a file as GIFTI and then as CIFTI-2.     *)
(***************************************************************************)
EXTENDS Integers, Sequences, FiniteSets, TLC

\* Number of export_cifti_mapping calls of one run of the model.
MaxCalls == 3
\* Number of export_cifti_mapping calls that may be in progress at once.
MaxActive == 2

Calls == 1..MaxCalls

(***************************************************************************)
(* export_cifti_mapping: names and the external tool                       *)
(***************************************************************************)

\* The keys of the returned dict, in the order the commands are issued and
\* the files are read (io.py:127-145).
Order == <<"subcortex", "cortex_left", "cortex_right">>

Structures == {Order[i] : i \in 1..3}

\* io.py:116-119: the scratch path of each structure; the same three paths
\* of tempfile.gettempdir() on every call.
ScratchPath(s) ==
  CASE s = "subcortex" -> "volume.txt"
    [] s = "cortex_left" -> "left.txt"
    [] s = "cortex_right" -> "right.txt"

Paths == {ScratchPath(s) : s \in Structures}

\* The image argument: None, or the path of an image.
None == "None"
parcel_labels_lr == "parcel_labels_lr.dlabel.nii"
ImageArgs == {None, "other.dscalar.nii"}

\* io.py:121-122
ResolveImage(image) == IF image = None THEN parcel_labels_lr ELSE image

\* What wb_command -cifti-export-dense-mapping writes for an image and a
\* structure when it succeeds: text rows of blank-separated integers, the
\* first the CIFTI index.  Within one image the three index sets partition
\* the image's index range.  The second image has no subcortical voxels:
\* its volume output has no rows.
ToolOutput(image, s) ==
  IF image = parcel_labels_lr
  THEN CASE s = "cortex_left" -> << <<0, 17>>, <<1, 42>> >>
         [] s = "cortex_right" -> << <<2, 5>> >>
         [] s = "subcortex" -> << <<3, 3, -10, 5, 20>> >>
  ELSE CASE s = "cortex_left" -> << <<0, 17>> >>
         [] s = "cortex_right" -> << <<1, 8>>, <<2, 9>> >>
         [] s = "subcortex" -> << >>

\* The exit statuses os.system can report for the command.
ExitStatuses == {"ok", "failed"}

\* A scratch file: whether it exists, its rows, and the call whose command
\* wrote it (0: nobody).
NoFile == [exists |-> FALSE, rows |-> << >>, by |-> 0]

\* The columns of a structure's table (io.py:139, 142, 144).
ColumnNames(s) ==
  IF s = "subcortex" THEN <<"structure", "mni_i", "mni_j", "mni_k">>
  ELSE <<"vertex">>

\* pd.read_table(path, header=None, index_col=0, sep=' ', names=...)
\* .rename_axis('index') (io.py:137-145): a missing file and a file with no
\* rows raise; otherwise each row's first field is the index and the
\* following fields are the named columns.
read_table(file, s) ==
  IF ~file.exists THEN [kind |-> "raise", exc |-> "FileNotFoundError", table |-> << >>]
  ELSE IF file.rows = << >> THEN [kind |-> "raise", exc |-> "EmptyDataError", table |-> << >>]
  ELSE [kind |-> "ok", exc |-> "",
        table |-> [i \in 1..Len(file.rows) |->
                     [index |-> file.rows[i][1],
                      cols |-> [j \in 1..Len(ColumnNames(s)) |-> file.rows[i][j + 1]]]]]

(***************************************************************************)
(* load_data: files, nib.load and the two decoders                         *)
(***************************************************************************)

\* Largest number of data arrays of a GIFTI image.
MaxArrays == 2
\* Largest extent of an axis of an array.
MaxDim == 2
\* Largest number of axes of a CIFTI-2 payload.
MaxRank == 2

\* The shapes of arrays of at most r axes.
RECURSIVE Shapes(_)
Shapes(r) ==
  IF r = 0 THEN {<< >>}
  ELSE Shapes(r - 1) \cup {Append(sh, d) : sh \in {x \in Shapes(r - 1) : Len(x) = r - 1}, d \in 1..MaxDim}

\* An ndarray: its shape, and the buffer of the file it was read from
\* (0: the payload get_data returns; i > 0: the data of the i-th darray).
Array(sh, b) == [shape |-> sh, buf |-> b]

\* The lists a GIFTI image can hold as .darrays: up to MaxArrays arrays,
\* each of one axis.
RECURSIVE DarrayLists(_)
DarrayLists(n) ==
  IF n = 0 THEN {<< >>}
  ELSE DarrayLists(n - 1) \cup
       {Append(l, [data |-> Array(<<d>>, n)]) : l \in {x \in DarrayLists(n - 1) : Len(x) = n - 1},
                                                  d \in 1..MaxDim}

\* What nib.load(f) finds in a file f:
\*   err         "none", or the exception nib.load raises (a missing file,
\*               a file no image class can read);
\*   has_darrays whether the image object has an attribute darrays, and
\*   darrays     its list of data arrays;
\*   get_data    "absent" when the image object has no attribute get_data,
\*               "raises" when get_data() fails reading the data block,
\*               "array" when it returns
\*   payload     the array of the data block, of at least one axis.
LoadErrors == {"FileNotFoundError", "ImageFileError"}

Files ==
  {[err |-> e, has_darrays |-> TRUE, darrays |-> l, get_data |-> g, payload |-> a] :
     e \in {"none"} \cup LoadErrors, l \in DarrayLists(MaxArrays),
     g \in {"absent", "raises"}, a \in {Array(<< >>, 0)}}
  \cup
  {[err |-> e, has_darrays |-> h, darrays |-> l, get_data |-> "array", payload |-> a] :
     e \in {"none"} \cup LoadErrors, h \in BOOLEAN, l \in DarrayLists(MaxArrays),
     a \in {Array(sh, 0) : sh \in Shapes(MaxRank) \ {<< >>}}}
  \cup
  {[err |-> e, has_darrays |-> FALSE, darrays |-> << >>, get_data |-> g, payload |-> a] :
     e \in {"none"} \cup LoadErrors, g \in {"absent", "raises"}, a \in {Array(<< >>, 0)}}

NoFileArg ==
  [err |-> "none", has_darrays |-> FALSE, darrays |-> << >>, get_data |-> "absent",
   payload |-> Array(<< >>, 0)]

Raise(e) == [kind |-> "raise", exc |-> e, value |-> Array(<< >>, 0), file |-> NoFileArg]
Return(v) == [kind |-> "return", exc |-> "", value |-> v, file |-> NoFileArg]

\* np.ndarray.squeeze(): every axis of extent one is dropped.
squeeze(a) == Array(SelectSeq(a.shape, LAMBDA d : d # 1), a.buf)

\* A variant that reads the second element of darrays.
load_gifti_second(f) ==
  IF f.err # "none" THEN Raise(f.err)
  ELSE IF ~f.has_darrays THEN Raise("AttributeError")
  ELSE IF Len(f.darrays) < 2 THEN Raise("IndexError")
  ELSE Return(f.darrays[2].data)

\* io.py:34  nib.load(f).darrays[0].data
load_gifti(f) ==
  IF f.err # "none" THEN Raise(f.err)
  ELSE IF ~f.has_darrays THEN Raise("AttributeError")
  ELSE IF Len(f.darrays) = 0 THEN Raise("IndexError")
  ELSE Return(f.darrays[1].data)

\* io.py:58  np.array(nib.load(f).get_data()).squeeze()
load_cifti2(f) ==
  IF f.err # "none" THEN Raise(f.err)
  ELSE IF f.get_data = "absent" THEN Raise("AttributeError")
  ELSE IF f.get_data = "raises" THEN Raise("OSError")
  ELSE Return(squeeze(f.payload))

\* A variant of the except clauses that catches every exception.
CatchesAll(exc) == TRUE

\* A variant of the except clauses that also catches IndexError.
CatchesLookupErrors(exc) == exc \in {"AttributeError", "IndexError"}

\* io.py:82, 85  except AttributeError
Catches(exc) == exc = "AttributeError"

\* io.py:86  TypeError("This file cannot be loaded: {}".format(f))
UnsupportedFormat(f) == [kind |-> "raise", exc |-> "TypeError", value |-> Array(<< >>, 0), file |-> f]

VARIABLES
  fs,       \* the scratch directory: path -> file
  pc,       \* per call: "idle", "system", "wait", "read", "done"
  step,     \* per call: index into Order of the structure being handled
  img,      \* per call: the resolved image
  status,   \* per call: structure -> exit status of its command ("none" before)
  maps,     \* per call: the dict being built (structure -> table)
  result,   \* per call: what the call returned or raised
  log,      \* per call: the commands invoked, exited and files read, in order
  lfile,    \* load_data: the file f
  lpc,      \* load_data: "off", "gifti", "cifti", "done"
  attempts, \* load_data: the decoders tried, in order
  lresult   \* load_data: what it returned or raised

exportVars == <<fs, pc, step, img, status, maps, result, log>>
loadVars == <<lfile, lpc, attempts, lresult>>
vars == <<exportVars, loadVars>>

NoResult == [kind |-> "none", exc |-> "", path |-> "", maps |-> << >>]

NoValue == [kind |-> "none", exc |-> "", value |-> Array(<< >>, 0), file |-> NoFileArg]

ExportInit ==
  /\ fs = [p \in Paths |-> NoFile]
  /\ pc = [k \in Calls |-> "idle"]
  /\ step = [k \in Calls |-> 1]
  /\ img = [k \in Calls |-> ""]
  /\ status = [k \in Calls |-> [s \in Structures |-> "none"]]
  /\ maps = [k \in Calls |-> << >>]
  /\ result = [k \in Calls |-> NoResult]
  /\ log = [k \in Calls |-> << >>]

\* No load_data call is modelled beside the export calls.
Init ==
  /\ ExportInit
  /\ lfile = NoFileArg
  /\ lpc = "off"
  /\ attempts = << >>
  /\ lresult = NoValue

Active == {k \in Calls : pc[k] \notin {"idle", "done"}}

\* io.py:115-125: a call begins; calls are numbered in the order they begin.
Enter(k, image) ==
  /\ pc[k] = "idle"
  /\ \A j \in 1..(k - 1) : pc[j] # "idle"
  /\ pc' = [pc EXCEPT ![k] = "system"]
  /\ img' = [img EXCEPT ![k] = ResolveImage(image)]
  /\ UNCHANGED <<fs, step, status, maps, result, log, loadVars>>

\* io.py:128, 131, 134: os.system starts the command of the next structure.
System(k) ==
  /\ pc[k] = "system"
  /\ pc' = [pc EXCEPT ![k] = "wait"]
  /\ log' = [log EXCEPT ![k] = Append(@, <<"invoke", Order[step[k]]>>)]
  /\ UNCHANGED <<fs, step, img, status, maps, result, loadVars>>

\* The file the command of call k leaves at the path of structure s: its
\* output when it succeeds, the file as it was when it fails.
Written(k, s, st) ==
  IF st = "ok"
  THEN [exists |-> TRUE, rows |-> ToolOutput(img[k], s), by |-> k]
  ELSE fs[ScratchPath(s)]

\* A variant that skips the remaining commands once a command has failed.
AfterExitChecked(i, st) ==
  IF st = "failed" \/ i = 3 THEN <<"read", 1>> ELSE <<"system", i + 1>>

\* Where a call goes once the command of Order[i] has exited: the return
\* value of os.system is dropped (io.py:128-134).
AfterExit(i, st) == IF i < 3 THEN <<"system", i + 1>> ELSE <<"read", 1>>

\* io.py:128, 131, 134: the command exits and os.system returns.
Exit(k, st) ==
  LET s == Order[step[k]]
      nxt == AfterExit(step[k], st)
  IN /\ pc[k] = "wait"
     /\ fs' = [fs EXCEPT ![ScratchPath(s)] = Written(k, s, st)]
     /\ status' = [status EXCEPT ![k][s] = st]
     /\ log' = [log EXCEPT ![k] = Append(@, <<"exit", s>>)]
     /\ pc' = [pc EXCEPT ![k] = nxt[1]]
     /\ step' = [step EXCEPT ![k] = nxt[2]]
     /\ UNCHANGED <<img, maps, result, loadVars>>

\* io.py:136-147: one pd.read_table; an exception ends the call, the third
\* table ends it with return maps.  Each table is kept with the call whose
\* command wrote the file it was parsed from.
ReadTable(k) ==
  LET s == Order[step[k]]
      r == read_table(fs[ScratchPath(s)], s)
      m == maps[k] @@ (s :> [table |-> r.table, by |-> fs[ScratchPath(s)].by])
  IN /\ pc[k] = "read"
     /\ log' = [log EXCEPT ![k] = Append(@, <<"read", s>>)]
     /\ IF r.kind = "raise"
        THEN /\ pc' = [pc EXCEPT ![k] = "done"]
             /\ result' = [result EXCEPT ![k] =
                  [kind |-> "raise", exc |-> r.exc, path |-> ScratchPath(s), maps |-> << >>]]
             /\ UNCHANGED <<step, maps>>
        ELSE /\ maps' = [maps EXCEPT ![k] = m]
             /\ IF step[k] < 3
                THEN /\ step' = [step EXCEPT ![k] = step[k] + 1]
                     /\ UNCHANGED <<pc, result>>
                ELSE /\ pc' = [pc EXCEPT ![k] = "done"]
                     /\ result' = [result EXCEPT ![k] =
                          [kind |-> "return", exc |-> "", path |-> "", maps |-> m]]
                     /\ UNCHANGED step
     /\ UNCHANGED <<fs, img, status, loadVars>>

\* A call of export_cifti_mapping(image) while fewer than MaxActive calls
\* are in progress (threads or processes sharing the temporary directory).
export_cifti_mapping(k, image) ==
  /\ Cardinality(Active) < MaxActive
  /\ Enter(k, image)

\* A call of export_cifti_mapping(image) made when no other call is in
\* progress.
export_cifti_mapping_alone(k, image) ==
  /\ Active = {}
  /\ Enter(k, image)

Next ==
  \E k \in Calls :
    \/ \E image \in ImageArgs : export_cifti_mapping(k, image)
    \/ System(k)
    \/ \E st \in ExitStatuses : Exit(k, st)
    \/ ReadTable(k)

Spec == Init /\ [][Next]_vars

SeqNext ==
  \E k \in Calls :
    \/ \E image \in ImageArgs : export_cifti_mapping_alone(k, image)
    \/ System(k)
    \/ \E st \in ExitStatuses : Exit(k, st)
    \/ ReadTable(k)

SeqSpec == Init /\ [][SeqNext]_vars

(***************************************************************************)
(* load_data as a state machine: one call on a file drawn from Files       *)
(***************************************************************************)

LoadInit ==
  /\ ExportInit
  /\ lfile \in Files
  /\ lpc = "gifti"
  /\ attempts = << >>
  /\ lresult = NoValue

\* io.py:80-82: the try block around _load_gifti and its except clause.
TryGifti ==
  LET r == load_gifti(lfile)
  IN /\ lpc = "gifti"
     /\ attempts' = Append(attempts, "gifti")
     /\ IF r.kind = "raise" /\ Catches(r.exc)
        THEN lpc' = "cifti" /\ UNCHANGED lresult
        ELSE lpc' = "done" /\ lresult' = r
     /\ UNCHANGED <<lfile, exportVars>>

\* io.py:83-86: the nested try block around _load_cifti2 and its except
\* clause.
TryCifti2 ==
  LET r == load_cifti2(lfile)
  IN /\ lpc = "cifti"
     /\ attempts' = Append(attempts, "cifti2")
     /\ lpc' = "done"
     /\ lresult' = IF r.kind = "raise" /\ Catches(r.exc) THEN UnsupportedFormat(lfile) ELSE r
     /\ UNCHANGED <<lfile, exportVars>>

LoadNext == TryGifti \/ TryCifti2

LoadSpec == LoadInit /\ [][LoadNext]_vars

(***************************************************************************)
(* Properties of load_data (checked under LoadSpec)                        *)
(***************************************************************************)

LoadDone == lpc = "done"

\* The number of elements of an array of shape sh.
RECURSIVE Size(_)
Size(sh) == IF sh = << >> THEN 1 ELSE Head(sh) * Size(Tail(sh))

\* The shape with its trailing axes of extent one removed.
RECURSIVE TrimTrailingOnes(_)
TrimTrailingOnes(sh) ==
  IF sh # << >> /\ sh[Len(sh)] = 1 THEN TrimTrailingOnes(SubSeq(sh, 1, Len(sh) - 1)) ELSE sh

\* The image object lacks the attribute an attempt reads.
NoDarraysAttribute(f) == f.err = "none" /\ ~f.has_darrays
NoGetDataAttribute(f) == f.err = "none" /\ f.get_data = "absent"

\* The container exposes no data array to format A and no payload to
\* format B.
ExposesNoDataArray(f) ==
  /\ f.err = "none"
  /\ ~f.has_darrays \/ f.darrays = << >>
  /\ f.get_data = "absent"

FormatB(f) == f.err = "none" /\ ~f.has_darrays /\ f.get_data = "array"

\* C4: for a format B file whose payload has N elements once trailing
\* singleton axes are removed, load_data returns a one-dimensional array of
\* length N holding the payload.
C4_FormatBReturnsFlatLengthN ==
  LoadDone /\ FormatB(lfile) =>
    lresult = Return(Array(<<Size(TrimTrailingOnes(lfile.payload.shape))>>, 0))

\* A format A file with exactly one data array.
FormatAOne(f) == f.err = "none" /\ f.has_darrays /\ Len(f.darrays) = 1

\* C5: for a format A file with exactly one data array of length N,
\* load_data returns that array, of shape (N,), and _load_gifti is the only
\* decoder attempted.
C5_FormatAReturnsItsArray ==
  FormatAOne(lfile) =>
    /\ "cifti2" \notin {attempts[i] : i \in 1..Len(attempts)}
    /\ lpc # "cifti"
    /\ LoadDone =>
         /\ attempts = <<"gifti">>
         /\ lresult = Return(lfile.darrays[1].data)
         /\ Len(lresult.value.shape) = 1

\* C5 witness: a call on a one-array format A file has returned.
C5_Witness ==
  /\ LoadDone
  /\ FormatAOne(lfile)
  /\ lresult.kind = "return"
  /\ lresult.value.shape = <<MaxDim>>

\* C9: format B is attempted exactly when the format A attempt raised
\* AttributeError; every other exception of the format A attempt, and
\* every exception of the format B attempt other than AttributeError, is
\* what load_data raises.
C9_OnlyAttributeErrorIsConverted ==
  LET a == load_gifti(lfile)
      b == load_cifti2(lfile)
      triedB == attempts = <<"gifti", "cifti2">>
  IN LoadDone =>
       /\ triedB <=> (a.kind = "raise" /\ a.exc = "AttributeError")
       /\ ~triedB => attempts = <<"gifti">>
       /\ a.kind = "raise" /\ a.exc # "AttributeError" => lresult = a
       /\ triedB /\ b.kind = "raise" /\ b.exc # "AttributeError" => lresult = b

\* C9 witness: the format A attempt raised AttributeError, format B was
\* attempted, and its OSError reached the caller.
C9_Witness ==
  /\ LoadDone
  /\ attempts = <<"gifti", "cifti2">>
  /\ lresult = Raise("OSError")

(***************************************************************************)
(* Properties of export_cifti_mapping                                      *)
(***************************************************************************)

Done(k) == pc[k] = "done"
Returned(k) == Done(k) /\ result[k].kind = "return"
Raised(k) == Done(k) /\ result[k].kind = "raise"
SomeFailed(k) == \E s \in Structures : status[k][s] = "failed"
AllOk(k) == \A s \in Structures : status[k][s] = "ok"

\* The DenseIndex set of a returned table.
IndexSet(t) == {t.table[i].index : i \in 1..Len(t.table)}

\* What the caller sees of a finished call: the exception, or the tables.
Outcome(k) ==
  [kind |-> result[k].kind, exc |-> result[k].exc, path |-> result[k].path,
   tables |-> [s \in DOMAIN result[k].maps |-> result[k].maps[s].table]]

\* The table parsed from what the command of call k writes for s.
OwnTable(k, s) ==
  read_table([exists |-> TRUE, rows |-> ToolOutput(img[k], s), by |-> k], s).table

\* C1: a call one of whose three commands exited with a failure status
\* ends by raising an error, not by returning a mapping.
C1_FailedCommandRaises ==
  \A k \in Calls : Done(k) /\ SomeFailed(k) => Raised(k)

\* C2: of calls on different images, a call that returns after its three
\* commands succeeded returns, for each structure, the table parsed from
\* what its own command wrote.
C2_NoCrossTalk ==
  \A k \in Calls :
    Returned(k) /\ AllOk(k) /\ (\A j \in Calls \ {k} : img[j] # img[k]) =>
      \A s \in Structures :
        /\ result[k].maps[s].by = k
        /\ result[k].maps[s].table = OwnTable(k, s)

\* C6: once a call has exited, by return or by exception, no scratch file
\* its commands wrote remains.
C6_ScratchRemovedOnExit ==
  \A k \in Calls : Done(k) => \A p \in Paths : ~(fs[p].exists /\ fs[p].by = k)

\* C7: the DenseIndex sets of the three tables of a returned mapping are
\* pairwise disjoint.
C7_IndexSetsDisjoint ==
  \A k \in Calls :
    Returned(k) =>
      \A s, t \in Structures :
        s # t => IndexSet(result[k].maps[s]) \cap IndexSet(result[k].maps[t]) = {}

\* The events of a call that runs to its return: the three commands, each
\* exiting before the next is invoked, then the three reads.
FullLog ==
  << <<"invoke", "subcortex">>, <<"exit", "subcortex">>,
     <<"invoke", "cortex_left">>, <<"exit", "cortex_left">>,
     <<"invoke", "cortex_right">>, <<"exit", "cortex_right">>,
     <<"read", "subcortex">>, <<"read", "cortex_left">>, <<"read", "cortex_right">> >>

Invocations(k) == SelectSeq(log[k], LAMBDA e : e[1] = "invoke")

\* C8: the events of a call are always a prefix of: subcortex, cortex_left
\* and cortex_right invoked in that order, each exiting before the next is
\* invoked, and only then the reads; a call that has exited has invoked the
\* command exactly three times, whatever the exit statuses were.
C8_ThreeSequentialCommands ==
  \A k \in Calls :
    /\ Len(log[k]) <= Len(FullLog)
    /\ log[k] = SubSeq(FullLog, 1, Len(log[k]))
    /\ pc[k] \in {"read", "done"} =>
         /\ Invocations(k) = [i \in 1..3 |-> <<"invoke", Order[i]>>]
         /\ \A s \in Structures : status[k][s] # "none"
         /\ Len(log[k]) >= 6

\* C8 witness: a call whose first command failed has exited after all
\* three invocations.
C8_Witness ==
  \E k \in Calls :
    /\ Done(k)
    /\ status[k]["subcortex"] = "failed"
    /\ Len(Invocations(k)) = 3

\* C10: of calls that do not overlap, a returned table was written by the
\* returning call's own command, and two calls with the same image and the
\* same exit statuses have the same outcome.
C10_IndependentOfEarlierCalls ==
  /\ \A k \in Calls :
       Returned(k) => \A s \in Structures : result[k].maps[s].by = k
  /\ \A i, j \in Calls :
       Done(i) /\ Done(j) /\ img[i] = img[j] /\ status[i] = status[j]
         => Outcome(i) = Outcome(j)

====
